---- MODULE Spec2Model ----
(***************************************************************************)
(* A model of crispy/scan_one_chromosome.py: the GuideRNA value class and  *)
(* the ChromosomeFile sliding-window scanner (openfile, scan_bidirection   *)
(* with forward_scan / reverse_scan, filemerge).                           *)
(*                                                                         *)
(* Text is modelled as sequences of one-character strings.  Python indices *)
(* are 0-based and are kept 0-based in every operator taken from the       *)
(* source; At and PySlice translate to TLA+'s 1-based sequences.           *)
(***************************************************************************)
EXTENDS Integers, Sequences, FiniteSets, TLC

VARIABLES
  inputfile,            \* the lines of the input file read so far, with their "\n"
  eof,                  \* TRUE when the input file has no line beyond these
  chrom_start,          \* self.chrom_start
  file,                 \* self.file: "False" (never opened), "open", "closed"
  pos,                  \* read position of the file object (lines consumed)
  line,                 \* local variable `line` of scan_bidirection
  linecounter,          \* self.linecounter
  chromosome_num,       \* self.chromosome_num
  chrom_window,         \* self.chrom_window
  window_start,         \* self.window_start
  start_positions_fwd,  \* keys of self.start_positions_fwd
  start_positions_rev,  \* keys of self.start_positions_rev
  fileF,                \* lines of <outputfile>_F.txt   (<<>> : no such file)
  fileR,                \* lines of <outputfile>_R.txt   (<<>> : no such file)
  fileMerged,           \* lines of <outputfile>_mergedguides.txt
  pc,                   \* "idle", or "loop" inside scan_bidirection's while
  err,                  \* exception raised by the last call ("" : none)
  lastCall,             \* the method invoked last
  scans,                \* scan_bidirection calls that got past the assert
  merges,               \* filemerge calls that ran to their end
  lastScan,             \* history: what the latest pass of the for loop saw
  prevScan,             \* history: the per-strand files before the latest scan
  guideArg,             \* the sequence handed to the GuideRNA constructor
  guideObj              \* the GuideRNA object constructed from guideArg

vars == << inputfile, eof, chrom_start, file, pos, line, linecounter,
           chromosome_num, chrom_window, window_start, start_positions_fwd,
           start_positions_rev, fileF, fileR, fileMerged, pc, err, lastCall,
           scans, merges, lastScan, prevScan, guideArg, guideObj >>

\* the attributes of the ChromosomeFile object and the files it writes
objectState == << file, pos, linecounter, chromosome_num, chrom_window,
                  window_start, start_positions_fwd, start_positions_rev,
                  fileF, fileR, fileMerged >>

-----------------------------------------------------------------------------
(* Bounds of the model *)

MaxLines == 9
MaxMerges == 2
MaxGuideLen == 3
MaxScans == 2
MaxRescanLines == 4

-----------------------------------------------------------------------------
(* Text helpers *)

Bases == {"A", "C", "G", "T", "N", "a", "c", "g", "t", "n"}

Whitespace == {" ", "\n"}

Min(a, b) == IF a < b THEN a ELSE b

Max(a, b) == IF a > b THEN a ELSE b

Rep(c, n) == [i \in 1..n |-> c]

\* F(x), with x evaluated once and handed to F as a value
Bind(x, F(_)) == CHOOSE r \in { F(v) : v \in { x } } : TRUE

Upper(c) ==
  CASE c = "a" -> "A"
    [] c = "c" -> "C"
    [] c = "g" -> "G"
    [] c = "t" -> "T"
    [] c = "n" -> "N"
    [] OTHER -> c

UpperStr(s) == [i \in 1..Len(s) |-> Upper(s[i])]

\* s[i] for a Python index i that is in range
At(s, i) == s[i + 1]

\* the clamping of one slice bound
SliceBound(i, n) == IF i < 0 THEN Max(i + n, 0) ELSE Min(i, n)

\* s[a:b]
PySlice(s, a, b) ==
  SubSeq(s, SliceBound(a, Len(s)) + 1, SliceBound(b, Len(s)))

\* s[a:]
PySliceFrom(s, a) == PySlice(s, a, Len(s))

RECURSIVE LStrip(_)
LStrip(s) ==
  IF s # << >> /\ Head(s) \in Whitespace THEN LStrip(Tail(s)) ELSE s

RECURSIVE RStrip(_)
RStrip(s) ==
  IF s # << >> /\ s[Len(s)] \in Whitespace
  THEN RStrip(SubSeq(s, 1, Len(s) - 1))
  ELSE s

\* s.strip()
Strip(s) == RStrip(LStrip(s))

\* s.index(c): the 0-based index of the first c, -1 standing for ValueError
RECURSIVE IndexFrom(_, _, _)
IndexFrom(s, c, i) ==
  IF i >= Len(s) THEN -1
  ELSE IF At(s, i) = c THEN i
  ELSE IndexFrom(s, c, i + 1)

Index(s, c) == IndexFrom(s, c, 0)

-----------------------------------------------------------------------------
(* class GuideRNA *)

\* ScoreItem with the test for N made without upper()
ScoreItem_UpperOnly(sequence, item_idx) ==
  LET item == At(sequence, item_idx)
  IN  << IF item # At(UpperStr(sequence), item_idx) THEN 1 ELSE 0,
         IF item = "N" THEN 1 ELSE 0 >>

\* what one pass of the loop of GuideRNA.__init__ adds to
\* << lowerscore, nscore >>
ScoreItem(sequence, item_idx) ==
  LET item == At(sequence, item_idx)
  IN  << IF item # At(UpperStr(sequence), item_idx) THEN 1 ELSE 0,
         IF Upper(item) = "N" THEN 1 ELSE 0 >>

\* what the passes item_idx = lo, ..., hi-1 of that loop add (the range is
\* halved only to keep the evaluation shallow)
RECURSIVE ScoreRange(_, _, _)
ScoreRange(sequence, lo, hi) ==
  IF lo >= hi THEN << 0, 0 >>
  ELSE IF hi = lo + 1 THEN ScoreItem(sequence, lo)
  ELSE LET mid == (lo + hi) \div 2
           a   == ScoreRange(sequence, lo, mid)
           b   == ScoreRange(sequence, mid, hi)
       IN  << a[1] + b[1], a[2] + b[2] >>

GuideRNA(sequence, start_coord, end_coord, chrom) ==
  LET sc == ScoreRange(sequence, 0, Len(sequence))
  IN  [ sequence       |-> sequence,
        range          |-> << start_coord, end_coord >>,
        chromosome_num |-> chrom,
        lowerscore     |-> 0 + sc[1],
        nscore         |-> 0 + sc[2] ]

NoGuide == GuideRNA(<< >>, 0, 0, << >>)

\* A line of an output file is a record of its tab-separated fields; dir = ""
\* stands for a line without the DIRECTION column.
HeaderLine ==
  [ tag |-> "HEADER", chr |-> << >>, start |-> 0, stop |-> 0, seq |-> << >>,
    n |-> 0, lower |-> 0, dir |-> "" ]

\* the line GuideRNA.write_to_file appends
write_to_file(rna) ==
  [ tag |-> "ROW", chr |-> << "c", "h", "r" >> \o rna.chromosome_num,
    start |-> rna.range[1], stop |-> rna.range[2], seq |-> rna.sequence,
    n |-> rna.nscore, lower |-> rna.lowerscore, dir |-> "" ]

\* ChromosomeFile.initialize_output_file: the file is truncated to its header
initialize_output_file == << HeaderLine >>

-----------------------------------------------------------------------------
(* The input source *)

\* AssertFile with the assertion left out
AssertFile_Skipped(f) == TRUE

\* assert self.file
AssertFile(f) == f # "False"

\* EndOfFile of a read that returns an empty string when no line is left
EndOfFile_EmptyLine == [ exc |-> "", line |-> << >> ]

\* self.file.next() when no line is left: StopIteration is raised
EndOfFile == [ exc |-> "StopIteration", line |-> << >> ]

\* self.file.next() where the file's next line is known: the line, or the
\* exception raised instead
FileNext(f, p) ==
  IF f = "False" THEN [ exc |-> "AttributeError", line |-> << >> ]
  ELSE IF f = "closed" THEN [ exc |-> "ValueError", line |-> << >> ]
  ELSE IF p >= Len(inputfile) THEN EndOfFile
  ELSE [ exc |-> "", line |-> inputfile[p + 1] ]

\* the truth value of a string
Truthy(s) == Len(s) > 0

-----------------------------------------------------------------------------
(* ChromosomeFile.forward_scan and reverse_scan.  st is the part of the    *)
(* object the for loop of scan_bidirection changes: the two caches, the    *)
(* two per-strand files, the exception that ended the loop (if any), and   *)
(* the offsets at which a motif was found (history).  w is                 *)
(* self.chrom_window during the loop.                                      *)

\* InCache of a cache that is never consulted
InCache_Never(coord, cache) == FALSE

\* the membership test both scans make before writing a guide
InCache(coord, cache) == coord \in cache

ForwardStart(char_idx) == chrom_start + window_start + char_idx - 21

ReverseStart(char_idx) == chrom_start + window_start + char_idx

forward_scan(st, w, char, char_idx) ==
  IF ~AssertFile(file) THEN [st EXCEPT !.err = "AssertionError"]
  ELSE IF char_idx + 1 >= Len(w) THEN [st EXCEPT !.err = "IndexError"]
  ELSE IF Upper(char) = Upper(At(w, char_idx + 1))
          /\ Upper(At(w, char_idx + 1)) = "G"
  THEN LET guide == PySlice(w, char_idx - 21, char_idx + 2)
           rna   == GuideRNA(guide, ForwardStart(char_idx),
                             chrom_start + window_start + char_idx + 1,
                             chromosome_num)
       IN  IF ~InCache(ForwardStart(char_idx), st.fwd)
           THEN [st EXCEPT !.F = Append(@, write_to_file(rna)),
                           !.fwd = @ \cup {ForwardStart(char_idx)},
                           !.fhits = @ \cup {char_idx}]
           ELSE [st EXCEPT !.fhits = @ \cup {char_idx}]
  ELSE st

reverse_scan(st, w, char, char_idx) ==
  IF ~AssertFile(file) THEN [st EXCEPT !.err = "AssertionError"]
  ELSE IF char_idx + 1 >= Len(w) THEN [st EXCEPT !.err = "IndexError"]
  ELSE IF Upper(char) = Upper(At(w, char_idx + 1))
          /\ Upper(At(w, char_idx + 1)) = "C"
  THEN LET guide == PySlice(w, char_idx, char_idx + 24)
           rna   == GuideRNA(guide, ReverseStart(char_idx),
                             chrom_start + window_start + char_idx + 23,
                             chromosome_num)
       IN  IF ~InCache(ReverseStart(char_idx), st.rev)
           THEN [st EXCEPT !.R = Append(@, write_to_file(rna)),
                           !.rev = @ \cup {ReverseStart(char_idx)},
                           !.rhits = @ \cup {char_idx}]
           ELSE [st EXCEPT !.rhits = @ \cup {char_idx}]
  ELSE st

\* ForwardGuard off by one
ForwardGuard_Strict(char_idx) == char_idx > 21

\* if char_idx >= 21
ForwardGuard(char_idx) == char_idx >= 21

\* ReverseGuard taken from the width of a line, not of the window
ReverseGuard_LineWidth(char_idx) == char_idx <= 50 - 24

\* if char_idx <= 100-24
ReverseGuard(char_idx) == char_idx <= 100 - 24

\* one pass of the body of
\*   for char_idx, char in enumerate(self.chrom_window[0:-1])
\* (chars is self.chrom_window[0:-1]); nothing runs once an exception is raised
ScanStep(st, w, chars, char_idx) ==
  IF st.err # "" THEN st
  ELSE LET char == At(chars, char_idx)
           s1   == IF ForwardGuard(char_idx)
                   THEN forward_scan(st, w, char, char_idx) ELSE st
       IN  IF s1.err = "" /\ ReverseGuard(char_idx)
           THEN reverse_scan(s1, w, char, char_idx) ELSE s1

\* the passes char_idx = lo, ..., hi-1 of the for loop, in this order.  The
\* range is halved, and the state between the two halves is bound as a
\* value, only so that the evaluation stays shallow and linear.
RECURSIVE ScanRange(_, _, _, _, _)
ScanRange(st, w, chars, lo, hi) ==
  IF lo >= hi THEN st
  ELSE IF hi = lo + 1 THEN ScanStep(st, w, chars, lo)
  ELSE Bind((lo + hi) \div 2, LAMBDA mid :
         Bind(ScanRange(st, w, chars, lo, mid), LAMBDA m :
           ScanRange(m, w, chars, mid, hi)))

\* LoopChars that runs to the window's last base
LoopChars_Whole(w) == w

\* self.chrom_window[0:-1], the characters the for loop enumerates
LoopChars(w) == PySlice(w, 0, -1)

\* the whole for loop over self.chrom_window
ScanLoop(st, w) ==
  Bind(LoopChars(w), LAMBDA chars :
    ScanRange(st, w, chars, 0, Len(chars)))

\* ClearDue with a period of five lines
ClearDue_Five(lc) == lc % 5 = 0

\* if not self.linecounter % 10
ClearDue(lc) == lc % 10 = 0

\* AdvanceWindow that keeps the last base of the line it drops
AdvanceWindow_Short(w) == PySliceFrom(w, 49)

\* self.chrom_window = self.chrom_window[50:]
AdvanceWindow(w) == PySliceFrom(w, 50)

\* AdvanceStart by the width of the window, not of the line dropped
AdvanceStart_Window(ws) == ws + 100

\* self.window_start += 50
AdvanceStart(ws) == ws + 50

\* InitialWindowStart taken to be the chromosome's first coordinate
InitialWindowStart_ChromStart == chrom_start

\* self.window_start = 0
InitialWindowStart == 0

\* lastScan before any pass of the while loop
NoScan ==
  [ window |-> << >>, offset |-> 0, cleared |-> FALSE, count |-> 0,
    fwd0 |-> {}, rev0 |-> {},
    loop |-> [ fwd |-> {}, rev |-> {}, F |-> << >>, R |-> << >>, err |-> "",
               fhits |-> {}, rhits |-> {} ] ]

-----------------------------------------------------------------------------
(* Inputs.  A chromosome file is a header line and sequence lines 50 bases *)
(* wide, the last one possibly shorter.  The full-width lines are drawn    *)
(* from two patterns that put motifs where the windows and guards end:     *)
(*   LineP: cC at 0, GG at 21, N n at 23, CC at 26, gG at 30, G at 49;     *)
(*   LineQ: Gg at 0, CC at 20, Cc at 40, GGG at 44, C at 49,               *)
(* so that Q,P has a CC and P,Q a GG across the line break.                *)

LineP ==
  << "c", "C" >> \o Rep("A", 19) \o << "G", "G", "N", "n", "t", "C", "C" >>
    \o << "t", "t", "g", "G" >> \o Rep("A", 17) \o << "G" >>

LineQ ==
  << "G", "g" >> \o Rep("T", 18) \o << "C", "C" >> \o Rep("a", 18)
    \o << "C", "c", "T", "T", "G", "G", "G", "A", "A", "C" >>

\* a last line of 30 bases: CC at 2, cc at 20, GG at 28
ShortLine ==
  << "A", "A", "C", "C" >> \o Rep("T", 16) \o << "c", "c" >> \o Rep("A", 6)
    \o << "G", "G" >>

\* the lines of 50 bases, as the file holds them
FullLines == { LineP \o << "\n" >>, LineQ \o << "\n" >> }

\* the lines that can only be the last one: the short line, and a single base
\* that is not followed by a newline
LastLines == { ShortLine \o << "\n" >>, << "G" >> }

\* ">chr7\n", a header with the marker twice, ">r r\n", and a header without
\* the marker, ">seq\n"
Headers ==
  { << ">", "c", "h", "r", "7", "\n" >>, << ">", "r", " ", "r", "\n" >>,
    << ">", "s", "e", "q", "\n" >> }

ChromStarts == { 1 }

\* The file is read front to back, so the model fixes its lines as they are
\* read: the header and the first two sequence lines at the start, and one
\* more line at each later read.  A file has at most MaxLines full lines.
InitialFiles ==
  { << h >> : h \in Headers }
    \cup { << h, l >> : h \in Headers, l \in FullLines \cup LastLines }
    \cup { << h, k, l >> : h \in Headers, k \in FullLines,
                           l \in FullLines \cup LastLines }

\* the lines that may come after a file of n lines whose end is not yet known
MoreLines(n) ==
  IF n - 1 < MaxLines THEN FullLines \cup LastLines ELSE LastLines

\* the outcomes of self.file.next(), the file's next line being any it may hold
ReadChoices(f, p) ==
  IF f = "open" /\ p >= Len(inputfile) /\ ~eof
  THEN { [ exc |-> "", line |-> l ] : l \in MoreLines(Len(inputfile)) }
         \cup { EndOfFile }
  ELSE { FileNext(f, p) }

GuideArgs == UNION { [1..n -> Bases] : n \in 0..MaxGuideLen }

-----------------------------------------------------------------------------
(* ChromosomeFile.__init__ with eager = False *)

Construct ==
  /\ file = "False"
  /\ pos = 0
  /\ line = << >>
  /\ linecounter = 0
  /\ chromosome_num = << >>
  /\ chrom_window = << >>
  /\ window_start = 0
  /\ start_positions_fwd = {}
  /\ start_positions_rev = {}
  /\ fileF = << >>
  /\ fileR = << >>
  /\ fileMerged = << >>
  /\ err = ""
  /\ lastCall = ""
  /\ scans = 0
  /\ merges = 0
  /\ lastScan = NoScan
  /\ prevScan = [ F |-> << >>, R |-> << >> ]

Init ==
  /\ inputfile \in InitialFiles
  /\ eof = (Len(inputfile) < 3 \/ inputfile[3] \in LastLines)
  /\ chrom_start \in ChromStarts
  /\ Construct
  /\ pc = "idle"
  /\ guideArg = << >>
  /\ guideObj = NoGuide

-----------------------------------------------------------------------------
(* ChromosomeFile.openfile *)

openfile ==
  /\ pc = "idle"
  /\ file = "False"
  /\ file' = "open"
  /\ pos' = 0
  /\ lastCall' = "openfile"
  /\ err' = ""
  /\ UNCHANGED << inputfile, eof, chrom_start, line, linecounter, chromosome_num,
                  chrom_window, window_start, start_positions_fwd,
                  start_positions_rev, fileF, fileR, fileMerged, pc, scans,
                  merges, lastScan, prevScan, guideArg, guideObj >>

\* openfile on an object that has opened its input before: self.file is
\* replaced by a new file object, which reads from the first line again
\* (explored for files of at most MaxRescanLines sequence lines)
openfile_again ==
  /\ pc = "idle"
  /\ file # "False"
  /\ scans < MaxScans
  /\ Len(inputfile) - 1 <= MaxRescanLines
  /\ file' = "open"
  /\ pos' = 0
  /\ lastCall' = "openfile"
  /\ err' = ""
  /\ UNCHANGED << inputfile, eof, chrom_start, line, linecounter, chromosome_num,
                  chrom_window, window_start, start_positions_fwd,
                  start_positions_rev, fileF, fileR, fileMerged, pc, scans,
                  merges, lastScan, prevScan, guideArg, guideObj >>

-----------------------------------------------------------------------------
(* ChromosomeFile.scan_bidirection, up to the while loop *)

\* ChromosomeId with the text taken as it stands
ChromosomeId_Unstripped(l, ix) == PySliceFrom(l, ix + 1)

\* line[line.index('r')+1:].strip(), ix being line.index('r')
ChromosomeId(l, ix) == Strip(PySliceFrom(l, ix + 1))

\* the three reads before the loop; the fields are the values the object is
\* left with, exc the exception that ended the call early
ScanPrologue ==
  LET r1 == FileNext(file, pos)
      ix == Index(r1.line, "r")
      id == ChromosomeId(r1.line, ix)
      r2 == FileNext(file, pos + 1)
      w  == chrom_window \o Strip(r2.line)
      r3 == FileNext(file, pos + 2)
      b  == [ pos |-> pos, chromosome_num |-> chromosome_num,
              chrom_window |-> chrom_window, linecounter |-> linecounter,
              line |-> << >>, exc |-> "" ]
  IN  IF r1.exc # "" THEN [b EXCEPT !.exc = r1.exc]
      ELSE IF ix = -1 THEN [b EXCEPT !.pos = pos + 1, !.exc = "ValueError"]
      ELSE IF r2.exc # ""
        THEN [b EXCEPT !.pos = pos + 1, !.chromosome_num = id, !.exc = r2.exc]
      ELSE IF r3.exc # ""
        THEN [b EXCEPT !.pos = pos + 2, !.chromosome_num = id,
                       !.chrom_window = w, !.exc = r3.exc]
      ELSE [b EXCEPT !.pos = pos + 3, !.chromosome_num = id,
                     !.chrom_window = w, !.linecounter = linecounter + 3,
                     !.line = r3.line]

scan_bidirection(limit) ==
  /\ pc = "idle"
  /\ scans < limit
  /\ pos + 3 <= Len(inputfile) \/ eof    \* the lines read here are fixed
  /\ lastCall' = "scan_bidirection"
  /\ IF ~AssertFile(file)
     THEN /\ err' = "AssertionError"
          /\ UNCHANGED << objectState, line, pc, scans, lastScan, prevScan >>
     ELSE LET r == ScanPrologue
          IN  /\ start_positions_fwd' = {}
              /\ start_positions_rev' = {}
              /\ window_start' = InitialWindowStart
              /\ fileF' = initialize_output_file
              /\ fileR' = initialize_output_file
              /\ pos' = r.pos
              /\ chromosome_num' = r.chromosome_num
              /\ chrom_window' = r.chrom_window
              /\ linecounter' = r.linecounter
              /\ line' = r.line
              /\ err' = r.exc
              /\ pc' = IF r.exc = "" THEN "loop" ELSE "idle"
              /\ scans' = scans + 1
              /\ lastScan' = NoScan
              /\ prevScan' = [ F |-> fileF, R |-> fileR ]
              /\ UNCHANGED << file, fileMerged >>
  /\ UNCHANGED << inputfile, eof, chrom_start, merges, guideArg, guideObj >>

\* the for loop's state on entry: both caches emptied when the clear is due,
\* nothing written yet, no exception, no motif seen
LoopEntry(clear) ==
  [ fwd |-> IF clear THEN {} ELSE start_positions_fwd,
    rev |-> IF clear THEN {} ELSE start_positions_rev,
    F |-> << >>, R |-> << >>, err |-> "", fhits |-> {}, rhits |-> {} ]

-----------------------------------------------------------------------------
(* ChromosomeFile.scan_bidirection: one pass of `while line`, with the     *)
(* closefile() that follows the loop.  lastScan' records the window, the   *)
(* offset, the caches on entry to the for loop and the loop's outcome.     *)

scan_iteration ==
  /\ pc = "loop"
  /\ IF ~Truthy(line)
     THEN \* the while condition fails: self.closefile(), and the call returns
          /\ file' = "closed"
          /\ pc' = "idle"
          /\ err' = ""
          /\ UNCHANGED << inputfile, eof, pos, line, linecounter,
                          chrom_window, window_start, start_positions_fwd,
                          start_positions_rev, fileF, fileR, lastScan >>
     ELSE /\ lastScan' =
               [ window  |-> chrom_window \o Strip(line),
                 offset  |-> window_start,
                 cleared |-> ClearDue(linecounter),
                 count   |-> lastScan.count + 1,
                 fwd0    |-> LoopEntry(ClearDue(linecounter)).fwd,
                 rev0    |-> LoopEntry(ClearDue(linecounter)).rev,
                 loop    |-> ScanLoop(LoopEntry(ClearDue(linecounter)),
                                      chrom_window \o Strip(line)) ]
          /\ start_positions_fwd' = lastScan'.loop.fwd
          /\ start_positions_rev' = lastScan'.loop.rev
          /\ fileF' = fileF \o lastScan'.loop.F
          /\ fileR' = fileR \o lastScan'.loop.R
          /\ IF lastScan'.loop.err # ""
             THEN \* an exception left the for loop
                  /\ chrom_window' = lastScan'.window
                  /\ err' = lastScan'.loop.err
                  /\ pc' = "idle"
                  /\ UNCHANGED << inputfile, eof, window_start, pos, line,
                                  linecounter >>
             ELSE /\ chrom_window' = AdvanceWindow(lastScan'.window)
                  /\ window_start' = AdvanceStart(window_start)
                  /\ \E r \in ReadChoices(file, pos) :
                       /\ inputfile' = IF r.exc = "" /\ pos >= Len(inputfile)
                                       THEN Append(inputfile, r.line)
                                       ELSE inputfile
                       /\ eof' = (eof \/ r.exc = "StopIteration"
                                      \/ r.line \in LastLines)
                       /\ IF r.exc = "StopIteration"
                          THEN \* except StopIteration: return
                               /\ err' = ""
                               /\ pc' = "idle"
                               /\ UNCHANGED << pos, line, linecounter >>
                          ELSE IF r.exc # ""
                          THEN /\ err' = r.exc
                               /\ pc' = "idle"
                               /\ UNCHANGED << pos, line, linecounter >>
                          ELSE /\ line' = r.line
                               /\ pos' = pos + 1
                               /\ linecounter' = linecounter + 1
                               /\ err' = ""
                               /\ pc' = "loop"
          /\ UNCHANGED file
  /\ UNCHANGED << chrom_start, chromosome_num, fileMerged, lastCall, scans,
                  merges, prevScan, guideArg, guideObj >>

-----------------------------------------------------------------------------
(* ChromosomeFile.filemerge *)

\* the lines written for the forward file: i counts from 0 in the source
MergeForward(f) ==
  [ i \in 1..Len(f) |->
      IF i - 1 # 0 THEN [f[i] EXCEPT !.dir = "F"]
      ELSE [f[i] EXCEPT !.dir = "DIRECTION"] ]

\* the lines written for the reverse file: its first line is passed over
MergeReverse(f) ==
  [ i \in 1..(Len(f) - 1) |-> [f[i + 1] EXCEPT !.dir = "R"] ]

\* open(..., 'a'): what is written is added after what the file holds
OpenAppend(old) == old

filemerge ==
  /\ pc = "idle"
  /\ merges < MaxMerges
  /\ lastCall' = "filemerge"
  /\ IF ~AssertFile(file)
     THEN /\ err' = "AssertionError"
          /\ UNCHANGED << fileMerged, merges >>
     ELSE IF fileF = << >>
     THEN \* no forward file to read
          /\ err' = "IOError"
          /\ fileMerged' = OpenAppend(fileMerged)
          /\ UNCHANGED merges
     ELSE IF fileR = << >>
     THEN /\ err' = "IOError"
          /\ fileMerged' = OpenAppend(fileMerged) \o MergeForward(fileF)
          /\ UNCHANGED merges
     ELSE /\ err' = ""
          /\ fileMerged' = OpenAppend(fileMerged) \o MergeForward(fileF)
                             \o MergeReverse(fileR)
          /\ merges' = merges + 1
  /\ UNCHANGED << inputfile, eof, chrom_start, file, pos, line, linecounter,
                  chromosome_num, chrom_window, window_start,
                  start_positions_fwd, start_positions_rev, fileF, fileR, pc,
                  scans, lastScan, prevScan, guideArg, guideObj >>

-----------------------------------------------------------------------------
(* The workflow of the module docstring on one ChromosomeFile: openfile,   *)
(* scan_bidirection, filemerge, each of which may also be invoked before   *)
(* openfile, and filemerge more than once.                                 *)

ScanCall == scan_bidirection(1)

Next ==
  \/ openfile
  \/ ScanCall
  \/ scan_iteration
  \/ filemerge

Spec == Init /\ [][Next]_vars

\* what a pass of the while loop does to the position in the call and in the
\* file: a further line is read, or the call ends.  Inside the loop no other
\* step is possible, so the steps of Next that are a WhilePass are exactly
\* the steps of scan_iteration, which is enabled whenever pc = "loop".
WhilePass ==
  /\ pc = "loop"
  /\ \/ pc' = "loop" /\ pos' = pos + 1
     \/ pc' = "idle" /\ pos' = pos

\* scan_bidirection is one sequential call: once inside its while loop the
\* next pass is always taken
SpecFair == Spec /\ WF_<< pc, pos >>(WhilePass)

-----------------------------------------------------------------------------
(* One ChromosomeFile used for more than one scan of its input: openfile,  *)
(* scan_bidirection, then openfile and scan_bidirection again.             *)

RescanCall == scan_bidirection(MaxScans)

NextRescan ==
  \/ openfile
  \/ openfile_again
  \/ RescanCall
  \/ scan_iteration

SpecRescan == Init /\ [][NextRescan]_vars

-----------------------------------------------------------------------------
(* GuideRNA on its own: the constructor applied to any short sequence *)

InitGuide ==
  /\ inputfile = << >>
  /\ eof = TRUE
  /\ chrom_start \in ChromStarts
  /\ Construct
  /\ pc = "guide"
  /\ guideArg \in GuideArgs
  /\ guideObj = NoGuide

NewGuideRNA ==
  /\ pc = "guide"
  /\ guideObj' = GuideRNA(guideArg, chrom_start, chrom_start + Len(guideArg) - 1,
                          << "7" >>)
  /\ pc' = "built"
  /\ UNCHANGED << inputfile, eof, chrom_start, objectState, line, err, lastCall,
                  scans, merges, lastScan, prevScan, guideArg >>

NextGuide == NewGuideRNA

SpecGuide == InitGuide /\ [][NextGuide]_vars

-----------------------------------------------------------------------------
(* Notions the properties are stated in *)

IsG(c) == c \in { "G", "g" }

IsC(c) == c \in { "C", "c" }

LowerCaseBases == { "a", "c", "g", "t", "n" }

\* a line of the input without its line end
Content(l) == SelectSeq(l, LAMBDA c : c \in Bases)

\* the bases of the lines i, i+1, ... of the input file
RECURSIVE BasesFrom(_)
BasesFrom(i) ==
  IF i > Len(inputfile) THEN << >>
  ELSE Content(inputfile[i]) \o BasesFrom(i + 1)

\* S: the concatenation of all sequence lines
ChromosomeSequence == BasesFrom(2)

\* scan_bidirection has returned normally
ScanCompleted ==
  pc = "idle" /\ lastCall = "scan_bidirection" /\ scans > 0 /\ err = ""

\* the start coordinates of the records of a per-strand file
Starts(f) == { f[i].start : i \in 2..Len(f) }

NoDuplicateStarts(f) ==
  \A i, j \in 2..Len(f) : i # j => f[i].start # f[j].start

\* the offsets of window w at which a forward / reverse motif lies
ForwardSites(w) ==
  { i \in 0..(Len(w) - 1) :
      i - 21 >= 0 /\ i + 2 <= Len(w) /\ IsG(w[i + 1]) /\ IsG(w[i + 2]) }

ReverseSites(w) ==
  { i \in 0..(Len(w) - 1) :
      i + 24 <= Len(w) /\ IsC(w[i + 1]) /\ IsC(w[i + 2]) }

\* a site of the latest window scan whose coordinate the cache already held
SuppressedForward ==
  \E i \in lastScan.loop.fhits :
    chrom_start + lastScan.offset + i - 21 \in lastScan.fwd0

SuppressedReverse ==
  \E i \in lastScan.loop.rhits :
    chrom_start + lastScan.offset + i \in lastScan.rev0

\* the positions of the marker in the first line of the input
MarkerAt == { i \in 1..Len(inputfile[1]) : inputfile[1][i] = "r" }

\* the text after the first marker, without the white space at its ends
HeaderId ==
  LET h     == inputfile[1]
      first == CHOOSE i \in MarkerAt : \A j \in MarkerAt : i <= j
      ink   == { i \in (first + 1)..Len(h) : h[i] \notin Whitespace }
  IN  IF ink = {} THEN << >>
      ELSE SubSeq(h, CHOOSE i \in ink : \A j \in ink : i <= j,
                     CHOOSE i \in ink : \A j \in ink : i >= j)

\* the bases of the lines i, ..., j of the input file
RECURSIVE BasesOf(_, _)
BasesOf(i, j) ==
  IF i > j THEN << >> ELSE BasesOf(i, j - 1) \o Content(inputfile[j])

\* the bases of the sequence lines consumed when the latest window scan
\* was made: that scan is number lastScan.count, and the header and
\* lastScan.count + 1 sequence lines had been read
ConsumedAtScan == BasesOf(2, lastScan.count + 2)

\* the latest window scan was made at the true offset of its buffer: the
\* buffer is what remains of the bases consumed once offset bases are dropped
OffsetIsTrue ==
  lastScan.count > 0 =>
    /\ lastScan.offset = 50 * (lastScan.count - 1)
    /\ lastScan.offset <= Len(ConsumedAtScan)
    /\ lastScan.window
         = SubSeq(ConsumedAtScan, lastScan.offset + 1, Len(ConsumedAtScan))

\* this step is a window scan
WindowScanStep == lastScan'.count = lastScan.count + 1

\* the start coordinates of the records of a per-strand file never decrease
StartsInOrder(f) ==
  \A i \in 2..(Len(f) - 1) : f[i].start <= f[i + 1].start

\* scan_bidirection has returned normally from a file of L sequence lines
\* after L - 1 window scans, every line read, the buffer holding what of the
\* lines' bases, taken in order, lies beyond the offset reached
ScanDone ==
  /\ ScanCompleted
  /\ eof
  /\ pos = Len(inputfile)
  /\ lastScan.count = (Len(inputfile) - 1) - 1
  /\ window_start <= Len(ChromosomeSequence)
  /\ chrom_window
       = SubSeq(ChromosomeSequence, window_start + 1, Len(ChromosomeSequence))

\* the records of a per-strand file, as a set
Records(f) == { f[i] : i \in 2..Len(f) }

-----------------------------------------------------------------------------
(* Properties *)

\* C1: after scan_bidirection completes, no start coordinate appears in more
\* than one record of the forward stream, nor in more than one record of the
\* reverse stream, whatever the length of the input (cache clears included).
C1_NoDuplicateStarts ==
  ScanCompleted => NoDuplicateStarts(fileF) /\ NoDuplicateStarts(fileR)

\* C2: completeness.  With S the concatenation of the sequence lines and N
\* its length, after a completed scan every p with S[p], S[p+1] both G,
\* p >= 21 and p+1 <= N-1 has a forward record with start chrom_start+p-21,
\* and every p with S[p], S[p+1] both C and p+24 <= N has a reverse record
\* with start chrom_start+p.
C2_Completeness ==
  ScanCompleted =>
    \A S \in { ChromosomeSequence } :
      /\ \A p \in 21..(Len(S) - 2) :
           IsG(S[p + 1]) /\ IsG(S[p + 2])
             => chrom_start + p - 21 \in Starts(fileF)
      /\ \A p \in 0..(Len(S) - 24) :
           IsC(S[p + 1]) /\ IsC(S[p + 2])
             => chrom_start + p \in Starts(fileR)

\* a completed scan of a file whose last line is short, with a GG lying
\* across a line break and a CC whose 24 bases end in the last line
C2_Witness ==
  /\ ScanCompleted
  /\ inputfile[Len(inputfile)] \in LastLines
  /\ \E S \in { ChromosomeSequence } :
       /\ \E p \in 21..(Len(S) - 2) :
            p % 50 = 49 /\ IsG(S[p + 1]) /\ IsG(S[p + 2])
       /\ \E p \in (Len(S) - 60)..(Len(S) - 24) :
            p >= 0 /\ IsC(S[p + 1]) /\ IsC(S[p + 2])

\* C3: in every window scan the offsets treated as forward hits are exactly
\* the i with w[i], w[i+1] both G, i-21 >= 0 and i+2 <= len(w); each is
\* emitted as a forward record unless its start is already in the cache.
C3_ForwardHitIff ==
  lastScan.count > 0 =>
    /\ lastScan.loop.fhits = ForwardSites(lastScan.window)
    /\ { lastScan.loop.F[k].start : k \in 1..Len(lastScan.loop.F) }
         = { chrom_start + lastScan.offset + i - 21 :
               i \in ForwardSites(lastScan.window) } \ lastScan.fwd0
    /\ \A k, l \in 1..Len(lastScan.loop.F) :
         k # l => lastScan.loop.F[k].start # lastScan.loop.F[l].start

\* a window scan that emitted one forward hit and suppressed another
C3_Witness ==
  /\ lastScan.count > 1
  /\ lastScan.loop.F # << >>
  /\ SuppressedForward

\* C4: in every window scan, short final windows included, the offsets
\* treated as reverse hits are exactly the i with w[i], w[i+1] both C and
\* i+24 <= len(w); no reverse record's 24 bases run past the buffer's end.
C4_ReverseHitIff ==
  lastScan.count > 0 =>
    /\ lastScan.loop.rhits = ReverseSites(lastScan.window)
    /\ \A k \in 1..Len(lastScan.loop.R) : Len(lastScan.loop.R[k].seq) = 24

\* C5: coordinate soundness.  Every forward record with start s holds
\* S[s-chrom_start .. s-chrom_start+23) and ends in two G; every reverse
\* record with start s holds the literal slice of S that begins at
\* s-chrom_start (24 bases, or fewer where S ends) and begins with two C.
C5_CoordinateSoundness ==
  \A S \in { ChromosomeSequence } :
    /\ \A i \in 2..Len(fileF) :
         LET k == fileF[i].start - chrom_start
         IN  /\ k >= 0 /\ k + 23 <= Len(S)
             /\ fileF[i].seq = SubSeq(S, k + 1, k + 23)
             /\ IsG(S[k + 22]) /\ IsG(S[k + 23])
    /\ \A i \in 2..Len(fileR) :
         LET k == fileR[i].start - chrom_start
             n == Len(fileR[i].seq)
         IN  /\ k >= 0 /\ n >= 2 /\ k + n <= Len(S)
             /\ n = 24 \/ k + n = Len(S)
             /\ fileR[i].seq = SubSeq(S, k + 1, k + n)
             /\ IsC(S[k + 1]) /\ IsC(S[k + 2])

\* a completed scan whose window has moved, with records taken beyond the
\* first window on both strands
C5_Witness ==
  /\ ScanCompleted
  /\ window_start >= 150
  /\ \E i \in 2..Len(fileF) : fileF[i].start >= chrom_start + 100
  /\ \E i \in 2..Len(fileR) : fileR[i].start >= chrom_start + 100

\* C6: every filemerge leaves a merged output of exactly 1 + F_count +
\* R_count lines: the header with the DIRECTION column, then the forward
\* records tagged F in order, then the reverse records tagged R in order,
\* without the reverse file's header; also when the merged output already
\* holds an earlier merge.
C6_MergedLayout ==
  (lastCall = "filemerge" /\ err = "") =>
    /\ Len(fileMerged) = 1 + (Len(fileF) - 1) + (Len(fileR) - 1)
    /\ fileMerged[1] = [HeaderLine EXCEPT !.dir = "DIRECTION"]
    /\ \A i \in 2..Len(fileF) : fileMerged[i] = [fileF[i] EXCEPT !.dir = "F"]
    /\ \A j \in 2..Len(fileR) :
         fileMerged[Len(fileF) + j - 1] = [fileR[j] EXCEPT !.dir = "R"]

\* C7: scan_bidirection or filemerge invoked on an object whose input was
\* never opened raises AssertionError and changes nothing: window, offset,
\* line counter, caches, per-strand files and merged output stay as they are.
C7_NotOpenFails ==
  [][ (file = "False" /\ lastCall' \in { "scan_bidirection", "filemerge" })
        => (err' = "AssertionError"
            /\ UNCHANGED << objectState, line, pc, lastScan >>) ]_vars

\* scan_bidirection has been invoked before openfile
C7_Witness ==
  file = "False" /\ lastCall = "scan_bidirection" /\ err = "AssertionError"

\* C8: when scan_bidirection returns after the input has run out of lines,
\* the input file has been closed.
C8_ClosedOnExhaustion ==
  (ScanCompleted /\ eof /\ pos = Len(inputfile)) => file = "closed"

\* C9: as long as the line counter has not reached 10, so that the caches
\* were never cleared, neither stream holds two records with the same start,
\* although consecutive windows overlap by 50 bases.
C9_NoDuplicatesBeforeClear ==
  linecounter < 10 => NoDuplicateStarts(fileF) /\ NoDuplicateStarts(fileR)

\* a completed scan of eight sequence lines whose last window met again, on
\* both strands, sites the window before it had reported
C9_Witness ==
  /\ ScanCompleted
  /\ linecounter = 9
  /\ SuppressedForward
  /\ SuppressedReverse

\* C11: a first line without the marker "r" makes scan_bidirection raise
\* ValueError before any sequence line is read: both per-strand files hold
\* their header only, and the window, the offset and the caches hold nothing.
\* With the marker, the identifier is the stripped text after the first "r",
\* and every record carries it.
C11_HeaderMarker ==
  scans > 0 =>
    IF MarkerAt = {}
    THEN /\ lastCall = "scan_bidirection" => (err = "ValueError" /\ pc = "idle")
         /\ fileF = << HeaderLine >> /\ fileR = << HeaderLine >>
         /\ chrom_window = << >> /\ window_start = 0
         /\ start_positions_fwd = {} /\ start_positions_rev = {}
         /\ lastScan.count = 0 /\ pos = 1
    ELSE /\ err # "ValueError"
         /\ chromosome_num = HeaderId
         /\ \A i \in 2..Len(fileF) :
              fileF[i].chr = << "c", "h", "r" >> \o HeaderId
         /\ \A i \in 2..Len(fileR) :
              fileR[i].chr = << "c", "h", "r" >> \o HeaderId

\* scan_bidirection has failed on a file that has sequence lines after a
\* header without the marker
C11_Witness ==
  /\ lastCall = "scan_bidirection" /\ err = "ValueError"
  /\ Len(inputfile) = 3
  /\ MarkerAt = {}

\* C12: window_start never decreases; it changes only by +50, and does so
\* exactly at a completed window scan; at every window scan it is the true
\* offset of the buffer's first base, the number of bases dropped so far.
C12_WindowOffset ==
  [][ /\ window_start' \in { window_start, window_start + 50 }
      /\ (window_start' = window_start + 50) <=> WindowScanStep
      /\ OffsetIsTrue' ]_vars

\* the fourth window scan, made at offset 150 on a window of two full lines
C12_Witness ==
  /\ lastScan.count = 4
  /\ lastScan.offset = 150
  /\ Len(lastScan.window) = 100
  /\ window_start = 200

\* C13: in every state of a scan the window buffer holds at most 100 bases,
\* however many lines have been consumed.
C13_BoundedWindow ==
  Len(chrom_window) <= 100 /\ Len(lastScan.window) <= 100

\* the eighth window scan still works on a buffer of exactly 100 bases
C13_Witness ==
  lastScan.count = 8 /\ Len(lastScan.window) = 100 /\ Len(chrom_window) = 50

\* C14: both caches are emptied, together, at the start of exactly the window
\* scans at which the number of lines consumed is a multiple of 10, before
\* the window is scanned; no other step removes a coordinate from a cache.
C14_EvictionSchedule ==
  [][ /\ WindowScanStep =>
           /\ lastScan'.cleared <=> (pos % 10 = 0)
           /\ lastScan'.cleared =>
                (lastScan'.fwd0 = {} /\ lastScan'.rev0 = {})
           /\ ~lastScan'.cleared =>
                /\ lastScan'.fwd0 = start_positions_fwd
                /\ lastScan'.rev0 = start_positions_rev
      /\ (~WindowScanStep \/ ~lastScan'.cleared) =>
           /\ start_positions_fwd \subseteq start_positions_fwd'
           /\ start_positions_rev \subseteq start_positions_rev' ]_vars

\* a window scan that began by emptying caches that held coordinates, and
\* then found hits on both strands
C14_Witness ==
  /\ lastScan.cleared
  /\ lastScan.count = 8
  /\ lastScan.loop.F # << >>
  /\ lastScan.loop.R # << >>

\* C15: within the forward file and within the reverse file, each record's
\* start coordinate is greater than or equal to that of the record written
\* before it, for inputs of any length.
C15_PositionOrder ==
  StartsInOrder(fileF) /\ StartsInOrder(fileR)

\* C16: every call of forward_scan or reverse_scan made by scan_bidirection
\* has char_idx + 1 inside the window, so no IndexError leaves a scan and the
\* for loop runs over the whole window.
C16_NoIndexError ==
  /\ err # "IndexError"
  /\ lastScan.loop.err = ""
  /\ lastScan.count > 0 =>
       \A i \in lastScan.loop.fhits \cup lastScan.loop.rhits :
         i + 1 < Len(lastScan.window)

\* a window of 51 bases has been scanned: both guards let the loop's last
\* index, 49, through to forward_scan and reverse_scan, which read base 50
C16_Witness ==
  /\ ScanCompleted
  /\ lastScan.count > 1
  /\ Len(lastScan.window) = 51
  /\ lastScan.loop.err = ""

\* C19: every forward record has 23 bases and range (start, start+22), every
\* reverse record 24 bases and range (start, start+23), records taken from a
\* short final window included.
C19_RangeMatchesSequence ==
  /\ \A i \in 2..Len(fileF) :
       Len(fileF[i].seq) = 23 /\ fileF[i].stop = fileF[i].start + 22
  /\ \A i \in 2..Len(fileR) :
       Len(fileR[i].seq) = 24 /\ fileR[i].stop = fileR[i].start + 23

\* C18: on a header and L >= 2 sequence lines scan_bidirection terminates
\* normally after exactly L - 1 window scans, every line consumed once and in
\* order; each pass of the loop scans a line just consumed, so it neither
\* loops without consuming a line nor scans after the input is exhausted.
C18_Termination ==
  /\ [](pc = "loop" =>
         /\ Truthy(line)
         /\ pos <= Len(inputfile)
         /\ line = inputfile[pos]
         /\ lastScan.count = pos - 3)
  /\ [](ScanCompleted => ScanDone)
  /\ (pc = "loop") ~> ScanDone

\* scan_bidirection has returned from a file of nine sequence lines after
\* eight window scans
C18_Witness ==
  /\ ScanDone
  /\ Len(inputfile) = 10
  /\ lastScan.count = 8

\* C17: openfile, scan_bidirection, then openfile and scan_bidirection again
\* on the same ChromosomeFile and the same input: the second scan leaves the
\* forward file and the reverse file with exactly the hits of the first.
C17_RescanIdempotent ==
  (ScanCompleted /\ scans = 2) =>
    /\ Records(fileF) = Records(prevScan.F)
    /\ Records(fileR) = Records(prevScan.R)

\* C10: GuideRNA stores the sequence unchanged; nscore is the number of
\* positions holding N or n, lowerscore the number of positions holding a
\* lower-case letter; neither exceeds the length of the sequence.
C10_Scores ==
  pc = "built" =>
    /\ guideObj.sequence = guideArg
    /\ guideObj.nscore
         = Cardinality({ i \in 1..Len(guideArg) : guideArg[i] \in { "N", "n" } })
    /\ guideObj.lowerscore
         = Cardinality({ i \in 1..Len(guideArg) :
                           guideArg[i] \in LowerCaseBases })
    /\ guideObj.nscore <= Len(guideArg)
    /\ guideObj.lowerscore <= Len(guideArg)

\* a GuideRNA built from a sequence holding N, n and another lower-case base
C10_Witness ==
  /\ pc = "built"
  /\ Len(guideArg) = MaxGuideLen
  /\ guideObj.nscore = 2
  /\ guideObj.lowerscore = 2

====
